---- MODULE Spec2Model ----
(***************************************************************************)
(* A model of the blog application of src/main.py: the users, blog_posts   *)
(* and comments tables, the e-mail dictionary built when the module is     *)
(* loaded, the per-client login session, and one action per route.         *)
(***************************************************************************)
EXTENDS Integers, Sequences, FiniteSets, TLC

\* ------------------------------------------------------------------ bounds
MaxPostId == 2
MaxComments == 1

\* ------------------------------------------------------- program constants
AdminId == 1

\* ------------------------------------------------------------ input domains
Clients == {"c1"}
EmailSeq == <<"a@x.com", "b@x.com">>
Emails == {EmailSeq[i] : i \in 1..Len(EmailSeq)}
InitUserCounts == {1}
FreshOrUsedStore == {0, 1}
Passwords == {1, 2}
ScriptPasswords == {1, 2, 3}
Salts == {1}
ScriptSalts == {1, 2}
Titles == {"t1", "t2"}
Texts == {"x"}
Names == {"n"}
PostIds == 1..MaxPostId
Null == 0

VARIABLES db_users, users, blog_posts, comments, session, request, response,
          pc, script

vars == <<db_users, users, blog_posts, comments, session, request, response,
          pc, script>>

\* ------------------------------------------------------------- helpers
RECURSIVE MaxOf(_)
MaxOf(S) == IF S = {} THEN 0
            ELSE LET x == CHOOSE y \in S : TRUE
                     m == MaxOf(S \ {x})
                 IN IF x > m THEN x ELSE m

\* werkzeug's pbkdf2 digest, an opaque one-way function of salt and password
Digest(salt, password) == (salt * 31 + password * 17) % 251

generate_password_hash(password, salt) ==
    [method |-> "pbkdf2:sha256", salt |-> salt, digest |-> Digest(salt, password)]

check_password_hash(pwhash, password) ==
    Digest(pwhash.salt, password) = pwhash.digest

\* ------------------------------------------------------------- the tables
User(id, email, password, name) ==
    [id |-> id, email |-> email, password |-> password, name |-> name]

BlogPost(id, author_id, title, subtitle, date, body, img_url) ==
    [id |-> id, author_id |-> author_id, title |-> title, subtitle |-> subtitle,
     date |-> date, body |-> body, img_url |-> img_url]

Comment(id, text, blog_post_id, commenter_id) ==
    [id |-> id, text |-> text, blog_post_id |-> blog_post_id,
     commenter_id |-> commenter_id]

\* User.query.filter_by(email=email).first(): the row's id, or Null
user_by_email(email) ==
    IF \E i \in 1..Len(db_users) : db_users[i].email = email
    THEN (CHOOSE i \in 1..Len(db_users) : db_users[i].email = email)
    ELSE Null

\* the unique constraint of users.email, checked by the store at commit
email_unique(email) == user_by_email(email) = Null

\* the unique constraint of blog_posts.title, checked by the store at commit
title_unique_off(rows, id, title) == TRUE
title_unique(rows, id, title) ==
    \A i \in 1..Len(rows) : rows[i].id # id => rows[i].title # title

post_ids == {blog_posts[i].id : i \in 1..Len(blog_posts)}

\* BlogPost.query.get(post_id): the row's position, or Null
post_get(post_id) ==
    IF post_id \in post_ids
    THEN (CHOOSE i \in 1..Len(blog_posts) : blog_posts[i].id = post_id)
    ELSE Null

\* SQLite's INTEGER PRIMARY KEY: one more than the largest id in the table
next_post_id == MaxOf(post_ids) + 1

Today == "November 04, 2026"

\* ------------------------------------------------- session and identity
Anonymous == [is_authenticated |-> FALSE]

load_user(user_id) ==
    [is_authenticated |-> TRUE, id |-> db_users[user_id].id]

current_user(c) ==
    IF session[c] = Null \/ session[c] > Len(db_users)
    THEN Anonymous
    ELSE load_user(session[c])

\* the id the request resolves to (read only where it is defined)
resolved(c) == IF current_user(c).is_authenticated THEN current_user(c).id ELSE Null

E_ANON == "AttributeError: 'AnonymousUserMixin' object has no attribute 'id'"
E_NONE == "AttributeError: 'NoneType' object has no attribute 'title'"
E_UNMAPPED == "UnmappedInstanceError: Class 'builtins.NoneType' is not mapped"
E_EMAIL == "IntegrityError: UNIQUE constraint failed: users.email"
E_TITLE == "IntegrityError: UNIQUE constraint failed: blog_posts.title"

F_SIGNED_UP == "You've already signed up with that email, log in instead!"
F_NO_EMAIL == "The username/email does not exist!"
F_BAD_PW == "The password is incorrect, Please try again"
F_NEED_LOGIN == "You need to login or register to comment"

\* the decorator: "call" when the wrapped function is to run
admin_only_any_user(cu) ==
    IF "id" \notin DOMAIN cu THEN E_ANON ELSE "call"
admin_only(cu) ==
    IF "id" \notin DOMAIN cu THEN E_ANON
    ELSE IF cu.id # AdminId THEN "403"
    ELSE "call"

login_required(cu) == IF cu.is_authenticated THEN "call" ELSE "401"

\* ------------------------------------------------- requests and responses
Request(c, op, method, email, post_id, title) ==
    [client |-> c, op |-> op, method |-> method, user |-> resolved(c),
     email |-> email, post_id |-> post_id, title |-> title]

Response(status, body, flash, post, cmts, all_posts) ==
    [status |-> status, body |-> body, flash |-> flash, post |-> post,
     comments |-> cmts, all_posts |-> all_posts]

render_template(template, post, cmts, all_posts) ==
    Response("200", template, "", post, cmts, all_posts)
redirect(endpoint, flash) == Response("302", endpoint, flash, Null, <<>>, <<>>)
abort(code) == Response(code, "abort", "", Null, <<>>, <<>>)
raise(exc) == Response("500", exc, "", Null, <<>>, <<>>)

NoRequest == [client |-> "", op |-> "", method |-> "", user |-> Null,
              email |-> "", post_id |-> Null, title |-> ""]
NoResponse == Response("", "", "", Null, <<>>, <<>>)

Form(title, text) ==
    [title |-> title, subtitle |-> text, body |-> text, img_url |-> text]
NoForm == Form("", "")

\* ------------------------------------------------------------- handlers
get_all_posts(c) ==
    /\ request' = Request(c, "get_all_posts", "GET", "", Null, "")
    /\ response' = render_template("index.html", Null, <<>>,
                       [i \in 1..Len(blog_posts) |-> blog_posts[i].id])
    /\ UNCHANGED <<db_users, users, blog_posts, comments, session>>

register(c, method, email, password, name, salt) ==
    /\ request' = Request(c, "register", method, email, Null, "")
    /\ IF method = "POST"
       THEN IF email \in DOMAIN users
            THEN /\ response' = redirect("login", F_SIGNED_UP)
                 /\ UNCHANGED <<db_users, session>>
            ELSE IF ~email_unique(email)
            THEN /\ response' = raise(E_EMAIL)
                 /\ UNCHANGED <<db_users, session>>
            ELSE LET new_user == User(Len(db_users) + 1, email,
                                      generate_password_hash(password, salt), name)
                 IN /\ db_users' = Append(db_users, new_user)
                    /\ session' = [session EXCEPT ![c] = new_user.id]
                    /\ response' = redirect("get_all_posts", "")
       ELSE /\ response' = render_template("register.html", Null, <<>>, <<>>)
            /\ UNCHANGED <<db_users, session>>
    /\ UNCHANGED <<users, blog_posts, comments>>

login(c, method, email, password) ==
    /\ request' = Request(c, "login", method, email, Null, "")
    /\ IF method = "POST"
       THEN IF email \notin DOMAIN users
            THEN /\ response' = redirect("login", F_NO_EMAIL)
                 /\ UNCHANGED session
            ELSE LET new_user == user_by_email(email)
                 IN IF new_user # Null
                       /\ check_password_hash(db_users[new_user].password, password)
                    THEN /\ session' = [session EXCEPT ![c] = db_users[new_user].id]
                         /\ response' = redirect("get_all_posts", "")
                    ELSE /\ response' = redirect("login", F_BAD_PW)
                         /\ UNCHANGED session
       ELSE /\ response' = render_template("login.html", Null, <<>>, <<>>)
            /\ UNCHANGED session
    /\ UNCHANGED <<db_users, users, blog_posts, comments>>

logout_keeps_session(c) ==
    /\ request' = Request(c, "logout", "GET", "", Null, "")
    /\ response' = redirect("get_all_posts", "")
    /\ UNCHANGED <<db_users, users, blog_posts, comments, session>>
logout(c) ==
    /\ request' = Request(c, "logout", "GET", "", Null, "")
    /\ session' = [session EXCEPT ![c] = Null]
    /\ response' = redirect("get_all_posts", "")
    /\ UNCHANGED <<db_users, users, blog_posts, comments>>

comment_ids(post_id) ==
    LET all_comments == SelectSeq(comments, LAMBDA m : m.blog_post_id = post_id)
    IN [i \in 1..Len(all_comments) |-> all_comments[i].id]

show_post(c, method, post_id, text) ==
    LET requested_post == IF post_get(post_id) = Null THEN Null ELSE post_id
        all_comments == comment_ids(post_id)
        cu == current_user(c)
    IN /\ request' = Request(c, "show_post", method, "", post_id, "")
       /\ IF method = "POST"
          THEN IF cu.is_authenticated
               THEN /\ comments' = Append(comments,
                            Comment(Len(comments) + 1, text, post_id, cu.id))
                    /\ response' = render_template("post.html", requested_post,
                                                   all_comments, <<>>)
               ELSE /\ response' = redirect("login", F_NEED_LOGIN)
                    /\ UNCHANGED comments
          ELSE /\ response' = render_template("post.html", requested_post,
                                              all_comments, <<>>)
               /\ UNCHANGED comments
       /\ UNCHANGED <<db_users, users, blog_posts, session>>

add_new_post(c, method, form) ==
    LET cu == current_user(c)
        guard == admin_only(cu)
    IN /\ request' = Request(c, "add_new_post", method, "", Null, form.title)
       /\ IF guard = "403"
          THEN response' = abort("403") /\ UNCHANGED blog_posts
          ELSE IF guard # "call"
          THEN response' = raise(guard) /\ UNCHANGED blog_posts
          ELSE IF method = "POST"
          THEN LET new_post == BlogPost(next_post_id, cu.id, form.title,
                                        form.subtitle, Today, form.body,
                                        form.img_url)
               IN IF title_unique(blog_posts, new_post.id, new_post.title)
                  THEN /\ blog_posts' = Append(blog_posts, new_post)
                       /\ response' = redirect("get_all_posts", "")
                  ELSE /\ response' = raise(E_TITLE)
                       /\ UNCHANGED blog_posts
          ELSE /\ response' = render_template("make-post.html", Null, <<>>, <<>>)
               /\ UNCHANGED blog_posts
       /\ UNCHANGED <<db_users, users, comments, session>>

edit_post(c, method, post_id, form) ==
    LET cu == current_user(c)
        guard == admin_only(cu)
        post == post_get(post_id)
    IN /\ request' = Request(c, "edit_post", method, "", post_id, form.title)
       /\ IF guard = "403"
          THEN response' = abort("403") /\ UNCHANGED blog_posts
          ELSE IF guard # "call"
          THEN response' = raise(guard) /\ UNCHANGED blog_posts
          ELSE IF login_required(cu) # "call"
          THEN response' = abort("401") /\ UNCHANGED blog_posts
          ELSE IF post = Null
          THEN response' = raise(E_NONE) /\ UNCHANGED blog_posts
          ELSE IF method = "POST"
          THEN IF title_unique(blog_posts, post_id, form.title)
               THEN /\ blog_posts' = [blog_posts EXCEPT
                                        ![post].title = form.title,
                                        ![post].subtitle = form.subtitle,
                                        ![post].img_url = form.img_url,
                                        ![post].body = form.body]
                    /\ response' = redirect("show_post", "")
               ELSE /\ response' = raise(E_TITLE)
                    /\ UNCHANGED blog_posts
          ELSE /\ response' = render_template("make-post.html", post_id, <<>>, <<>>)
               /\ UNCHANGED blog_posts
       /\ UNCHANGED <<db_users, users, comments, session>>

\* db.session.delete(post) followed by commit: the row goes, and the rows of
\* its comments relationship (no delete cascade) get a NULL blog_post_id
delete_row(post_id) ==
    /\ blog_posts' = SelectSeq(blog_posts, LAMBDA p : p.id # post_id)
    /\ comments' = [i \in 1..Len(comments) |->
                      IF comments[i].blog_post_id = post_id
                      THEN [comments[i] EXCEPT !.blog_post_id = Null]
                      ELSE comments[i]]

delete_post_unguarded(c, post_id) ==
    /\ request' = Request(c, "delete_post", "GET", "", post_id, "")
    /\ IF post_get(post_id) = Null
       THEN response' = raise(E_UNMAPPED) /\ UNCHANGED <<blog_posts, comments>>
       ELSE delete_row(post_id) /\ response' = redirect("get_all_posts", "")
    /\ UNCHANGED <<db_users, users, session>>
delete_post(c, post_id) ==
    LET guard == admin_only(current_user(c))
    IN /\ request' = Request(c, "delete_post", "GET", "", post_id, "")
       /\ IF guard = "403"
          THEN response' = abort("403") /\ UNCHANGED <<blog_posts, comments>>
          ELSE IF guard # "call"
          THEN response' = raise(guard) /\ UNCHANGED <<blog_posts, comments>>
          ELSE IF post_get(post_id) = Null
          THEN response' = raise(E_UNMAPPED) /\ UNCHANGED <<blog_posts, comments>>
          ELSE delete_row(post_id) /\ response' = redirect("get_all_posts", "")
       /\ UNCHANGED <<db_users, users, session>>

\* ------------------------------------------------------- initial states
\* the store as an earlier run left it: the first k addresses registered
InitUsers(k) ==
    [i \in 1..k |-> User(i, EmailSeq[i], generate_password_hash(1, 1), "n")]

\* lines 109-112: the dictionary of the e-mails present when the module loads
InitDict(rows) ==
    [e \in {rows[i].email : i \in 1..Len(rows)} |-> [password |-> "Secret"]]

InitStore(counts) ==
    /\ \E k \in counts : db_users = InitUsers(k)
    /\ users = InitDict(db_users)
    /\ blog_posts = <<>>
    /\ comments = <<>>
    /\ session = [c \in Clients |-> Null]
    /\ request = NoRequest
    /\ response = NoResponse

NoScript == [client |-> "", email |-> "", password |-> Null, wrong |-> Null]

Init ==
    /\ InitStore(InitUserCounts)
    /\ pc = "serve"
    /\ script = NoScript

\* ------------------------------------------------------------- actions
GetAllPosts ==
    /\ pc = "serve"
    /\ \E c \in Clients : get_all_posts(c)
    /\ UNCHANGED <<pc, script>>

Register ==
    /\ pc = "serve"
    /\ \E c \in Clients :
          \/ register(c, "GET", "", Null, "", Null)
          \/ \E email \in Emails, password \in Passwords, name \in Names,
                salt \in Salts :
                /\ register(c, "POST", email, password, name, salt)
    /\ UNCHANGED <<pc, script>>

Login ==
    /\ pc = "serve"
    /\ \E c \in Clients :
          \/ login(c, "GET", "", Null)
          \/ \E email \in Emails, password \in Passwords :
                login(c, "POST", email, password)
    /\ UNCHANGED <<pc, script>>

Logout ==
    /\ pc = "serve"
    /\ \E c \in Clients : logout(c)
    /\ UNCHANGED <<pc, script>>

ShowPost ==
    /\ pc = "serve"
    /\ \E c \in Clients, post_id \in PostIds :
          \/ show_post(c, "GET", post_id, "")
          \/ \E text \in Texts :
                /\ current_user(c).is_authenticated => Len(comments) < MaxComments
                /\ show_post(c, "POST", post_id, text)
    /\ UNCHANGED <<pc, script>>

AddNewPost ==
    /\ pc = "serve"
    /\ \E c \in Clients :
          \/ add_new_post(c, "GET", NoForm)
          \/ \E title \in Titles, text \in Texts :
                /\ next_post_id <= MaxPostId
                /\ add_new_post(c, "POST", Form(title, text))
    /\ UNCHANGED <<pc, script>>

EditPost ==
    /\ pc = "serve"
    /\ \E c \in Clients, post_id \in PostIds :
          \/ edit_post(c, "GET", post_id, NoForm)
          \/ \E title \in Titles, text \in Texts :
                edit_post(c, "POST", post_id, Form(title, text))
    /\ UNCHANGED <<pc, script>>

DeletePost ==
    /\ pc = "serve"
    /\ \E c \in Clients, post_id \in PostIds : delete_post(c, post_id)
    /\ UNCHANGED <<pc, script>>

Next ==
    \/ GetAllPosts
    \/ Register
    \/ Login
    \/ Logout
    \/ ShowPost
    \/ AddNewPost
    \/ EditPost
    \/ DeletePost

Spec == Init /\ [][Next]_vars

\* ------------------------------------- the end-to-end scenario of one client
\* register(e, p), logout, login(e, p), login(e, q) with q # p and e new
InitE2E ==
    /\ InitStore(FreshOrUsedStore)
    /\ pc = "register"
    /\ \E c \in Clients, e \in Emails, p \in ScriptPasswords, q \in ScriptPasswords :
          /\ email_unique(e)
          /\ q # p
          /\ script = [client |-> c, email |-> e, password |-> p, wrong |-> q]

E2ERegister ==
    /\ pc = "register"
    /\ \E name \in Names, salt \in ScriptSalts :
          register(script.client, "POST", script.email, script.password, name, salt)
    /\ pc' = "logout"
    /\ UNCHANGED script

E2ELogout ==
    /\ pc = "logout"
    /\ logout(script.client)
    /\ pc' = "login"
    /\ UNCHANGED script

E2ELogin ==
    /\ pc = "login"
    /\ login(script.client, "POST", script.email, script.password)
    /\ pc' = "relogin"
    /\ UNCHANGED script

E2EWrongLogin ==
    /\ pc = "relogin"
    /\ login(script.client, "POST", script.email, script.wrong)
    /\ pc' = "done"
    /\ UNCHANGED script

NextE2E == E2ERegister \/ E2ELogout \/ E2ELogin \/ E2EWrongLogin

SpecE2E == InitE2E /\ [][NextE2E]_vars

\* ---------------------------------------------------------- properties
Ok == redirect("get_all_posts", "")
Management == {"add_new_post", "edit_post", "delete_post"}
titles == {blog_posts[i].title : i \in 1..Len(blog_posts)}

\* C1: register(e, p), logout, login(e, p), login(e, q) in one process: the
\* client is the new user after register, anonymous after logout, the same user
\* again after login(e, p), and login(e, q) fails without authenticating.
C1_EndToEnd ==
    LET c == script.client
        u == user_by_email(script.email)
    IN /\ pc = "logout" => u # Null /\ resolved(c) = u /\ response = Ok
       /\ pc = "login" => resolved(c) = Null
       /\ pc = "relogin" => u # Null /\ resolved(c) = u /\ response = Ok
       /\ pc = "done" => response # Ok /\ response.flash # ""

\* C2: a registration with an e-mail already in the users table answers with
\* the duplicate-email message, never an exception, adds no user and logs
\* nobody in.
C2_DuplicateEmail ==
    [][(/\ request'.op = "register"
        /\ request'.method = "POST"
        /\ ~email_unique(request'.email))
       => /\ response' = redirect("login", F_SIGNED_UP)
          /\ db_users' = db_users
          /\ session' = session]_vars

\* C3: create, edit and delete post run their body only for the administrator;
\* any other authenticated user gets 403 and an anonymous client gets
\* Unauthorized or the redirect to login.
C3_AdminOnly ==
    request.op \in Management =>
       /\ request.user = Null =>
             \/ response.status = "401"
             \/ response.status = "302" /\ response.body = "login"
       /\ request.user \notin {Null, AdminId} => response = abort("403")
       /\ (response # abort("403") /\ response.body # E_ANON)
             => request.user = AdminId

C6_CommentAppended ==
    [][/\ (/\ request'.op = "show_post"
           /\ request'.method = "POST"
           /\ request'.post_id \in post_ids
           /\ request'.user # Null)
          => /\ Len(comments') = Len(comments) + 1
             /\ SubSeq(comments', 1, Len(comments)) = comments
             /\ comments'[Len(comments')].blog_post_id = request'.post_id
             /\ comments'[Len(comments')].commenter_id = request'.user
             /\ comments'[Len(comments')].id \in
                   {response'.comments[i] : i \in 1..Len(response'.comments)}
       /\ (request'.op = "show_post" /\ response'.status = "200")
          => /\ \A m \in 1..Len(comments) :
                   comments[m].blog_post_id = request'.post_id
                      => \E i \in 1..Len(response'.comments) :
                            response'.comments[i] = comments[m].id
             /\ \A i, j \in 1..Len(response'.comments) :
                   i < j => response'.comments[i] < response'.comments[j]]_vars

\* C7: once the administrator has deleted post X it is out of the listing, and
\* a view of X then answers 404.
C7_DeletedPostNotFound ==
    [][/\ (request'.op = "delete_post" /\ response' = Ok)
          => request'.post_id \notin post_ids'
       /\ (/\ request.op = "delete_post"
           /\ response = Ok
           /\ request'.op = "show_post"
           /\ request'.method = "GET"
           /\ request'.post_id = request.post_id)
          => response'.status = "404"]_vars

\* C8: every stored comment references an existing post and an existing user.
C8_CommentReferences ==
    \A i \in 1..Len(comments) :
       /\ comments[i].blog_post_id \in post_ids
       /\ comments[i].commenter_id \in {db_users[u].id : u \in 1..Len(db_users)}

\* C9: a request without an authenticated session leaves the posts and the
\* comments as they are; its comment submission is redirected to login.
C9_AnonymousReadOnly ==
    [][request'.user = Null =>
         /\ blog_posts' = blog_posts
         /\ comments' = comments
         /\ (request'.op = "show_post" /\ request'.method = "POST")
               => response' = redirect("login", F_NEED_LOGIN)]_vars

C9_Witness ==
    /\ request.user = Null
    /\ request.op = "delete_post"
    /\ request.post_id \in post_ids
    /\ \E i \in 1..Len(comments) : comments[i].blog_post_id = request.post_id

\* C10: a post's author is the user who created it, no later request (edit-post
\* replaces title, subtitle, image URL and body only) changes it, and so every
\* post's author is the administrator.
C10_AuthorFixed ==
    [][/\ \A j \in 1..Len(blog_posts') : blog_posts'[j].author_id = AdminId
       /\ \A i \in 1..Len(blog_posts), j \in 1..Len(blog_posts') :
             blog_posts[i].id = blog_posts'[j].id
                => blog_posts'[j].author_id = blog_posts[i].author_id
       /\ (request'.op = "add_new_post" /\ response' = Ok)
             => /\ blog_posts' # blog_posts
                /\ blog_posts'[Len(blog_posts')].author_id = request'.user
       /\ request'.op = "edit_post"
             => /\ Len(blog_posts') = Len(blog_posts)
                /\ \A i \in 1..Len(blog_posts) :
                      /\ blog_posts'[i].id = blog_posts[i].id
                      /\ blog_posts'[i].author_id = blog_posts[i].author_id
                      /\ blog_posts'[i].date = blog_posts[i].date
                      /\ blog_posts[i].id # request'.post_id
                            => blog_posts'[i] = blog_posts[i]]_vars

C10_Witness ==
    /\ request.op = "edit_post"
    /\ response = redirect("show_post", "")
    /\ \E i \in 1..Len(blog_posts) :
          blog_posts[i].id = request.post_id /\ blog_posts[i].title = request.title

====
